---- MODULE Spec2Model ----
(***************************************************************************)
(* Model of cmd/translate/main.go: the read-through translation cache      *)
(* (GET /translate/:word/to/:lang, fetch, invokeTrans), the notification   *)
(* loop behind the unbuffered notifyChannel, the start-up cache cleanup    *)
(* and the start-up engine discovery (getEngines).                         *)
(*                                                                         *)
(* Strings are sequences of characters.  A notification text is a sequence *)
(* of lines, so that strings.Join(batch, "\n") is the concatenation of the *)
(* events' lines and not the identity.                                     *)
(***************************************************************************)
EXTENDS Integers, Sequences, FiniteSets, Bags, TLC

\* ------------------------------------------------------------------ bounds
\* Number of HTTP requests handled in one behaviour.
MaxRequests == 1
\* Number of lines in the output of `trans -S` (SpecEngines only).
MaxLines == 3

\* ----------------------------------------------------------------- strings
\* " " is white space, "^" a control character
\* (not white space, not graphic), Upper the upper-case letters; everything else
\* is a lower-case letter.
IsSpace(c) == c = " "

Upper == {"A", "E", "X"}

ToLowerChar(c) ==
    IF c \notin Upper THEN c
    ELSE IF c = "A" THEN "a" ELSE IF c = "E" THEN "e" ELSE "x"

IsGraphic(c) == c # "^"

ToLower(s) == [i \in 1..Len(s) |-> ToLowerChar(s[i])]

RECURSIVE TrimLeft(_)
TrimLeft(s) == IF s # <<>> /\ IsSpace(Head(s)) THEN TrimLeft(Tail(s)) ELSE s

RECURSIVE TrimRight(_)
TrimRight(s) ==
    IF s # <<>> /\ IsSpace(s[Len(s)]) THEN TrimRight(SubSeq(s, 1, Len(s) - 1)) ELSE s

TrimSpace(s) == TrimRight(TrimLeft(s))

\* A normalisation that forgets to trim.
NormalizeNoTrim(s) == ToLower(s)

\* strings.ToLower(strings.TrimSpace(x)), lines 45, 46 and 106
Normalize(s) == ToLower(TrimSpace(s))

\* strings.Join(batch, "\n") on texts held as sequences of lines
RECURSIVE Join(_)
Join(events) == IF events = <<>> THEN <<>> ELSE Head(events) \o Join(Tail(events))

\* ------------------------------------------------------------------ inputs
\* The :word and :lang path parameters a client may send.
RawWords == {<<>>, <<" ">>, <<" ", "A">>}
RawLangs == {<<>>, <<" ", " ">>, <<"E", " ">>}

\* What the external translation command may print on its standard output.
RawOutputs == {<<>>, <<" ">>, <<"X", " ">>}

Words == {Normalize(w) : w \in RawWords} \ {<<>>}
Langs == {Normalize(l) : l \in RawLangs} \ {<<>>}

\* The store is durable: it also holds hashes of languages no request of this
\* behaviour asks for.
StoreLangs == Langs \cup {<<"f">>}
StoreWords == Words \cup {<<"b">>}
StoreKeys == StoreLangs \X StoreWords

\* The absent hash field (redis.Nil) and the values found in the store at start.
Nil == <<"nil">>
StoredValues == {<<>>, <<"x">>, <<"^">>, <<"x", "^">>}

Requests == 1..MaxRequests

\* --------------------------------------------------------- notification texts
\* One line of a text: what fmt.Sprint put together.
Line(kind, a, b, n) == [kind |-> kind, a |-> a, b |-> b, n |-> n]

\* line 66
StartedText == <<Line("import-lang backend started", <<>>, <<>>, 0)>>

\* line 115: fmt.Sprint("[error] ", originalWord, " (to ", targetLanguage+") ", err)
TranslationErrorText(word, lang) ==
    <<Line("[error] $a (to $b) failed to translate in all engines", word, lang, 0)>>

\* lines 71 and 226
DiscoveryErrorText == <<Line("[error] failed get engines list: $err", <<>>, <<>>, 0)>>

\* lines 73 and 222: the engine names joined by ", "
DiscoveryInfoText(list) == <<Line("[info] supported engines: $a", list, <<>>, 0)>>

\* A summary that leaves out the lines of the languages.
SummaryTextTotalOnly(pass, removed, stats, order) ==
    <<Line(IF pass = 1 THEN "[info] removed $n trashed (empty) translations"
                       ELSE "[info] removed $n non-printable translations",
           <<>>, <<>>, removed)>>

\* lines 179-184 and 209-214: the total, then one line per language of stats in
\* the order `order` (the iteration order of a Go map)
SummaryText(pass, removed, stats, order) ==
    <<Line(IF pass = 1 THEN "[info] removed $n trashed (empty) translations"
                       ELSE "[info] removed $n non-printable translations",
           <<>>, <<>>, removed)>>
    \o [i \in 1..Len(order) |-> Line("$a: $n removes", order[i], <<>>, stats[order[i]])]

\* ----------------------------------------------------------------- engines
\* var engines = []string{"google"}, line 30
DefaultEngines == <<"google">>

\* What a read past the end of the default backing array finds.
Junk == "<junk>"

\* Characters that \w does not match.
NonWord == {"*"}

\* textOnly.FindString(line), lines 229 and 240: the first word of the line, or ""
RECURSIVE FirstWord(_)
FirstWord(line) ==
    IF line = <<>> THEN ""
    ELSE IF Head(line) \notin NonWord THEN Head(line)
    ELSE FirstWord(Tail(line))

\* lines 238-243
RECURSIVE ParseEngines(_)
ParseEngines(data) ==
    IF data = <<>> THEN <<>>
    ELSE LET l == FirstWord(Head(data))
         IN  (IF l # "" THEN <<l>> ELSE <<>>) \o ParseEngines(Tail(data))

\* lines 244-253: the first "google" changes places with the element at index 0
MoveGoogleFirst(list) ==
    LET at == {i \in 1..Len(list) : list[i] = "google"}
    IN  IF at = {} THEN list
        ELSE LET i == CHOOSE k \in at : \A m \in at : k <= m
             IN  IF i = 1 THEN list
                 ELSE [list EXCEPT ![1] = list[i], ![i] = list[1]]

\* getEngines, lines 231-255, on the result of running `<command> -S`
GetEngines(res) ==
    IF res.exit # "ok" THEN [list |-> <<>>, err |-> TRUE]
    ELSE [list |-> MoveGoogleFirst(ParseEngines(res.data)), err |-> FALSE]

\* The lines `<command> -S` may print.
OutputLines == {<<>>, <<"*">>, <<"*", "google">>, <<"bing">>, <<"yandex">>}

RECURSIVE SeqsUpTo(_, _)
SeqsUpTo(S, n) ==
    IF n = 0 THEN {<<>>}
    ELSE LET shorter == SeqsUpTo(S, n - 1)
         IN  shorter \cup {Append(q, x) : q \in shorter, x \in S}

\* Every output of at most MaxLines lines (SpecEngines).
AllOutputs == SeqsUpTo(OutputLines, MaxLines)

\* The runs of `<command> -S` the whole-program specification draws from.
DiscoveryResults ==
    { [exit |-> "error", data |-> <<>>],
      [exit |-> "ok", data |-> << <<>> >>],
      [exit |-> "ok", data |-> << <<"bing">>, <<"*", "google">>, <<"yandex">>, <<>> >>] }

\* The runs of `<command> -e <engine> -b :<lang> <word>`, line 100.
ExecResults ==
    { [exit |-> "error", out |-> <<>>], [exit |-> "error", out |-> <<"X", " ">>] }
    \cup { [exit |-> "ok", out |-> o] : o \in RawOutputs }

\* invokeTrans without the test of lines 107-109.
InvokeTransNoEmptyCheck(res) ==
    IF res.exit # "ok" THEN [ans |-> <<>>, err |-> TRUE]
    ELSE [ans |-> Normalize(res.out), err |-> FALSE]

\* invokeTrans without the TrimSpace of line 106.
InvokeTransNoTrim(res) ==
    IF res.exit # "ok" THEN [ans |-> <<>>, err |-> TRUE]
    ELSE LET ans == ToLower(res.out)
         IN  IF ans = <<>> THEN [ans |-> <<>>, err |-> TRUE]
             ELSE [ans |-> ans, err |-> FALSE]

\* invokeTrans, lines 94-111
InvokeTrans(res) ==
    IF res.exit # "ok" THEN [ans |-> <<>>, err |-> TRUE]
    ELSE LET ans == Normalize(res.out)
         IN  IF ans = <<>> THEN [ans |-> <<>>, err |-> TRUE]
             ELSE [ans |-> ans, err |-> FALSE]

\* ------------------------------------------------------------------- state
VARIABLES
    cache,      \* the redis store: StoreKeys -> value or Nil
    engines,    \* the slice header of the global `engines`: [ptr, len]
    dpc,        \* discovery goroutine (lines 68-76): "exec", "write", "done"
    dlist,      \* its local `list`
    dwritten,   \* the words of the header that `engines = list` has stored
    rpc,        \* request -> position in the handler and fetch
    rword,      \* request -> word (line 45)
    rlang,      \* request -> lang (line 46)
    rans,       \* request -> ans (lines 56 and 82)
    rsnap,      \* request -> the elements `range engines` iterates over
    ridx,       \* request -> index of the next engine in rsnap
    rresp,      \* request -> body of the response, Nil before it is written
    npc,        \* notificationLoop: "init", "select", "send"
    bot,        \* its `bot`: "nil" or "bot"
    batch,      \* its `batch`
    text,       \* its `msg` of line 139
    pending,    \* goroutines blocked in `notifyChannel <- text`
    jpass,      \* cleanup: 1 = removeEmptyTranslations, 2 = removeNonPrintable...
    jpc,        \* its position: "keys", "scan", "del", "summary", "done"
    jlangs,     \* languages of client.Keys("*") still to visit
    jlang,      \* the language being cleaned
    jtodo,      \* words of client.HGetAll(lang) the pass will delete
    removed,    \* its `removed`
    stats,      \* its `stats`
    sweep,      \* history of cleanup: run (which call of cleanup this is),
                \*   before (the store when it was called), pass (the store when
                \*   the pass began), seen (the values HGetAll returned for the
                \*   words the pass will delete), lost (the deletions of
                \*   entries that held a non-empty value of letters only)
    rlog,       \* history: request -> what the request did
    arrived,    \* history: events received since the last tick was handled
    retained,   \* history: the batch a failed bot.Send left behind, until a
                \*   later bot.Send succeeds
    tickSends,  \* history: bot.Send calls of the tick being handled
    lastSend,   \* history: the bot.Send that has just returned, until the loop
                \*   handles its next event
    notes,      \* history: received (the bag of events the loop has received),
                \*   delivered (the bag of events of the bot.Send calls that
                \*   succeeded), since (the events received since the last
                \*   successful bot.Send or the last drop of the batch)
    gpc,        \* SpecEngines: position in getEngines: "parse", "reorder", "return"
    gdata,      \* SpecEngines: the output being parsed by getEngines
    gparsed,    \* SpecEngines: `engines` after the loop of lines 239-243
    gout        \* SpecEngines: what getEngines returns

vars == <<cache, engines, dpc, dlist, dwritten, rpc, rword, rlang, rans, rsnap,
          ridx, rresp, npc, bot, batch, text, pending, jpass, jpc, jlangs, jlang,
          jtodo, removed, stats, sweep, rlog, arrived, retained, tickSends, lastSend,
          notes, gpc, gdata, gparsed, gout>>

storeVars == <<cache>>
discVars == <<engines, dpc, dlist, dwritten>>
reqVars == <<rpc, rword, rlang, rans, rsnap, ridx, rresp, rlog>>
loopVars == <<npc, bot, batch, text, arrived, retained, tickSends, lastSend, notes>>
janVars == <<jpass, jpc, jlangs, jlang, jtodo, removed, stats, sweep>>
getVars == <<gpc, gdata, gparsed, gout>>

Sender(from, t) == [from |-> from, text |-> t]

\* The stores the program may find at start-up.
AllCaches == [StoreKeys -> StoredValues \cup {Nil}]

Store(ea, eb, fa, fb) ==
    [k \in StoreKeys |->
        IF k[1] = <<"e">> THEN (IF k[2] = <<"a">> THEN ea ELSE eb)
        ELSE (IF k[2] = <<"a">> THEN fa ELSE fb)]

\* The stores the whole-program specification starts from.
StartCaches ==
    { Store(Nil, Nil, Nil, Nil),
      Store(<<>>, <<"^">>, Nil, Nil),
      Store(<<"x">>, Nil, <<>>, Nil),
      Store(<<"^">>, Nil, Nil, Nil) }

\* lastSend: the outcome, the text sent, the bot.Send calls of the tick, the
\* events a failed send had left in the batch and those that arrived since the
\* tick before
NoSend == [outcome |-> "none", text |-> <<>>, calls |-> 0, kept |-> <<>>,
           fresh |-> <<>>]

\* rlog: the parameters as sent, the HGet calls and what the store answered
\* (err: the field is absent or the command failed; got: the value otherwise),
\* the engines run with what each did, the HSet calls, the texts handed to the
\* notification loop
NoLog == [rawWord |-> <<>>, rawLang |-> <<>>, reads |-> 0, err |-> FALSE,
          got |-> Nil, invoked |-> <<>>, writes |-> <<>>, emitted |-> <<>>]

\* The string holds nothing but white space.
Blank(str) == \A i \in 1..Len(str) : IsSpace(str[i])

\* The state when main reaches router.Run (line 77): the loop, the cleanup and
\* the discovery are started, "backend started" waits to be received.
Started ==
    /\ engines = [ptr |-> "default", len |-> Len(DefaultEngines)]
    /\ dpc = "exec" /\ dlist = <<>> /\ dwritten = {}
    /\ rpc = [r \in Requests |-> "idle"]
    /\ rword = [r \in Requests |-> <<>>]
    /\ rlang = [r \in Requests |-> <<>>]
    /\ rans = [r \in Requests |-> <<>>]
    /\ rsnap = [r \in Requests |-> <<>>]
    /\ ridx = [r \in Requests |-> 0]
    /\ rresp = [r \in Requests |-> Nil]
    /\ npc = "init" /\ bot = "nil" /\ batch = <<>> /\ text = <<>>
    /\ pending = {Sender(<<"main", 0>>, StartedText)}
    /\ jpass = 1 /\ jpc = "keys" /\ jlangs = {} /\ jlang = <<>> /\ jtodo = {}
    /\ removed = 0 /\ stats = [l \in StoreLangs |-> 0]
    /\ sweep = [run |-> 1, before |-> cache, pass |-> cache, seen |-> <<>>,
                lost |-> {}]
    /\ rlog = [r \in Requests |-> NoLog]
    /\ arrived = <<>> /\ retained = <<>> /\ tickSends = 0 /\ lastSend = NoSend
    /\ notes = [received |-> EmptyBag, delivered |-> EmptyBag, since |-> <<>>]

Init ==
    /\ cache \in StartCaches
    /\ Started
    /\ gpc = "idle" /\ gdata = <<>> /\ gparsed = <<>> /\ gout = <<>>

\* ------------------------------------------------------ the request handler
\* A handler that looks at the value before it trusts the store.
CacheMissRevalidating(ok, stored) == ~ok \/ stored = Nil \/ stored = <<>>

\* cached.Err() != nil (line 57): the command failed or the field is absent
CacheMiss(ok, stored) == ~ok \/ stored = Nil

\* `notifyChannel <- text` (line 115): the goroutine waits for the receive
BlockOnSend(from, t) == pending' = pending \cup {Sender(from, t)}

\* The elements of the backing array a slice header points to.
ElemAt(ptr, i) ==
    IF ptr = "default"
    THEN (IF i <= Len(DefaultEngines) THEN DefaultEngines[i] ELSE Junk)
    ELSE (IF i <= Len(dlist) THEN dlist[i] ELSE Junk)

\* lines 44-54: the parameters are trimmed and lowercased; an empty one ends
\* the request with an empty body
ReqStart(r) ==
    /\ rpc[r] = "idle"
    /\ \E rw \in RawWords, rl \in RawLangs :
         LET word == Normalize(rw)
             lang == Normalize(rl)
         IN  /\ rword' = [rword EXCEPT ![r] = word]
             /\ rlang' = [rlang EXCEPT ![r] = lang]
             /\ rlog' = [rlog EXCEPT ![r].rawWord = rw, ![r].rawLang = rl]
             /\ IF word = <<>> \/ lang = <<>>
                THEN /\ rresp' = [rresp EXCEPT ![r] = <<>>]
                     /\ rpc' = [rpc EXCEPT ![r] = "done"]
                ELSE /\ rresp' = rresp
                     /\ rpc' = [rpc EXCEPT ![r] = "hget"]
    /\ UNCHANGED <<storeVars, discVars, loopVars, janVars, getVars, pending,
                   rans, rsnap, ridx>>

\* lines 55-61: client.HGet(lang, word); a hit is the response as it is stored
ReqHGet(r) ==
    /\ rpc[r] = "hget"
    /\ \E ok \in BOOLEAN :
         LET stored == cache[<<rlang[r], rword[r]>>]
             miss == CacheMiss(ok, stored)
             val == IF ~ok \/ stored = Nil THEN <<>> ELSE stored
         IN  /\ rans' = [rans EXCEPT ![r] = val]
             /\ rlog' = [rlog EXCEPT ![r].reads = @ + 1,
                                     ![r].err = (~ok \/ stored = Nil),
                                     ![r].got = IF ok THEN stored ELSE Nil]
             /\ IF miss
                THEN /\ rpc' = [rpc EXCEPT ![r] = "range"]
                     /\ rresp' = rresp
                ELSE /\ rpc' = [rpc EXCEPT ![r] = "done"]
                     /\ rresp' = [rresp EXCEPT ![r] = val]
    /\ UNCHANGED <<storeVars, discVars, loopVars, janVars, getVars, pending,
                   rword, rlang, rsnap, ridx>>

\* lines 88-91 when the loop of line 81 is over: the handler sends the error
\* text on notifyChannel and waits
LoopOver(r) ==
    /\ rpc' = [rpc EXCEPT ![r] = "notify"]
    /\ BlockOnSend(<<"req", r>>, TranslationErrorText(rword[r], rlang[r]))

\* line 81: `range engines` reads the header of the global once, with no lock;
\* a nil array with a positive length faults at the first element
ReqRange(r) ==
    /\ rpc[r] = "range"
    /\ IF engines.ptr = "nil" /\ engines.len > 0
       THEN /\ rpc' = [rpc EXCEPT ![r] = "panic"]
            /\ UNCHANGED <<rsnap, ridx, pending>>
       ELSE /\ rsnap' = [rsnap EXCEPT
                           ![r] = [i \in 1..engines.len |-> ElemAt(engines.ptr, i)]]
            /\ ridx' = [ridx EXCEPT ![r] = 1]
            /\ IF engines.len = 0
               THEN LoopOver(r)
               ELSE /\ rpc' = [rpc EXCEPT ![r] = "invoke"]
                    /\ pending' = pending
    /\ UNCHANGED <<storeVars, discVars, loopVars, janVars, getVars,
                   rword, rlang, rans, rresp, rlog>>

\* A loop that runs the same engine again.
NextEngineRetry(i) == i

\* line 83: err == nil
Succeeded(got) == ~got.err

\* line 81: the loop goes on to the next element
NextEngine(i) == i + 1

\* lines 82-87: one engine is run; a failure moves on to the next engine
ReqInvoke(r) ==
    /\ rpc[r] = "invoke"
    /\ \E res \in ExecResults :
         LET got == InvokeTrans(res)
             ran == [engine |-> rsnap[r][ridx[r]],
                     ok |-> res.exit = "ok" /\ ~Blank(res.out),
                     ans |-> IF res.exit = "ok" THEN Normalize(res.out) ELSE <<>>]
         IN  /\ rlog' = [rlog EXCEPT ![r].invoked = Append(@, ran)]
             /\ IF Succeeded(got)
                THEN /\ rans' = [rans EXCEPT ![r] = got.ans]
                     /\ rpc' = [rpc EXCEPT ![r] = "hset"]
                     /\ UNCHANGED <<ridx, pending>>
                ELSE /\ rans' = rans
                     /\ ridx' = [ridx EXCEPT ![r] = NextEngine(ridx[r])]
                     /\ IF ridx[r] = Len(rsnap[r])
                        THEN LoopOver(r)
                        ELSE UNCHANGED <<rpc, pending>>
    /\ UNCHANGED <<storeVars, discVars, loopVars, janVars, getVars,
                   rword, rlang, rsnap, rresp>>

\* lines 84-85 and 60: client.HSet(lang, word, ans), its error ignored
ReqHSet(r) ==
    /\ rpc[r] = "hset"
    /\ \E ok \in BOOLEAN :
         cache' = IF ok THEN [cache EXCEPT ![<<rlang[r], rword[r]>>] = rans[r]]
                  ELSE cache
    /\ rlog' = [rlog EXCEPT ![r].writes = Append(@, <<rlang[r], rword[r], rans[r]>>)]
    /\ rresp' = [rresp EXCEPT ![r] = rans[r]]
    /\ rpc' = [rpc EXCEPT ![r] = "done"]
    /\ UNCHANGED <<discVars, loopVars, janVars, getVars, pending,
                   rword, rlang, rans, rsnap, ridx>>

\* ------------------------------------------------------- the notification loop
\* lines 119-126: tgbotapi.NewBotAPI
LoopInit ==
    /\ npc = "init"
    /\ \E ok \in BOOLEAN : bot' = IF ok THEN "bot" ELSE "nil"
    /\ npc' = "select"
    /\ UNCHANGED <<storeVars, discVars, reqVars, janVars, getVars, pending,
                   batch, text, arrived, retained, tickSends, lastSend, notes>>

\* line 91: fetch returns the word when every engine failed
Degraded(word) == word

\* A loop that appends every text twice.
AppendTwice(b, t) == Append(Append(b, t), t)

\* line 134
AppendToBatch(b, t) == Append(b, t)

\* The bag of the elements of a sequence.
RECURSIVE SeqToBag(_)
SeqToBag(q) == IF q = <<>> THEN EmptyBag ELSE SetToBag({Head(q)}) (+) SeqToBag(Tail(q))

\* lines 132-134: a blocked sender hands over its text; a request handler
\* goes on to return the word (lines 91 and 60)
LoopReceive(s) ==
    /\ npc = "select"
    /\ s \in pending
    /\ pending' = pending \ {s}
    /\ batch' = AppendToBatch(batch, s.text)
    /\ arrived' = Append(arrived, s.text)
    /\ lastSend' = NoSend
    /\ notes' = [notes EXCEPT !.received = @ (+) SetToBag({s.text}),
                              !.since = Append(@, s.text)]
    /\ IF s.from[1] = "req"
       THEN LET r == s.from[2]
            IN  /\ rpc' = [rpc EXCEPT ![r] = "done"]
                /\ rresp' = [rresp EXCEPT ![r] = Degraded(rword[r])]
                /\ rlog' = [rlog EXCEPT ![r].emitted = Append(@, s.text)]
       ELSE UNCHANGED <<rpc, rresp, rlog>>
    /\ UNCHANGED <<storeVars, discVars, janVars, getVars, npc, bot, text,
                   retained, tickSends, rword, rlang, rans, rsnap, ridx>>

\* A loop that keeps the batch after a successful send.
AfterSendKeeps(ok, b) == b

\* A loop that drops the batch after a failed send.
AfterSendDrops(ok, b) == <<>>

\* A loop that keeps the batch when there is no bot.
AfterNoBotKeeps(b) == b

\* lines 149-154: the batch after bot.Send returned
AfterSend(ok, b) == IF ok THEN <<>> ELSE b

\* lines 141-144: the batch when there is no bot
AfterNoBot(b) == <<>>

\* lines 135-148: a tick; an empty batch is left alone, without a bot the batch
\* is dropped, otherwise bot.Send is called with the joined batch
LoopTick ==
    /\ npc = "select"
    /\ lastSend' = NoSend
    /\ IF batch = <<>>
       THEN /\ arrived' = <<>>
            /\ UNCHANGED <<npc, batch, text, tickSends, notes>>
       ELSE IF bot = "nil"
       THEN /\ batch' = AfterNoBot(batch)
            /\ arrived' = <<>>
            /\ notes' = [notes EXCEPT !.since = <<>>]
            /\ UNCHANGED <<npc, text, tickSends>>
       ELSE /\ text' = Join(batch)
            /\ npc' = "send"
            /\ tickSends' = tickSends + 1
            /\ UNCHANGED <<batch, arrived, notes>>
    /\ UNCHANGED <<storeVars, discVars, reqVars, janVars, getVars, pending, bot,
                   retained>>

\* lines 148-155: bot.Send returns; `msg` goes out of scope
LoopSendDone ==
    /\ npc = "send"
    /\ \E ok \in BOOLEAN :
         /\ batch' = AfterSend(ok, batch)
         /\ retained' = IF ok THEN <<>> ELSE batch
         /\ lastSend' = [outcome |-> IF ok THEN "ok" ELSE "fail", text |-> text,
                         calls |-> tickSends, kept |-> retained, fresh |-> arrived]
         /\ notes' = IF ok THEN [notes EXCEPT !.delivered = @ (+) SeqToBag(batch),
                                              !.since = <<>>]
                     ELSE notes
    /\ npc' = "select"
    /\ text' = <<>>
    /\ arrived' = <<>>
    /\ tickSends' = 0
    /\ UNCHANGED <<storeVars, discVars, reqVars, janVars, getVars, pending, bot>>

\* --------------------------------------------------------------- discovery
\* lines 69-73: getEngines, then the error or the info notification, each sent
\* by a goroutine of its own (lines 221-227)
Discover(results) ==
    /\ dpc = "exec"
    /\ \E res \in results :
         LET got == GetEngines(res)
         IN  IF got.err
             THEN /\ BlockOnSend(<<"discovery", 0>>, DiscoveryErrorText)
                  /\ dpc' = "done"
                  /\ dlist' = dlist
             ELSE /\ BlockOnSend(<<"discovery", 0>>, DiscoveryInfoText(got.list))
                  /\ dpc' = "write"
                  /\ dlist' = got.list
    /\ UNCHANGED <<storeVars, reqVars, loopVars, janVars, getVars, engines, dwritten>>

\* line 74: `engines = list` stores the words of the slice header one by one, in
\* an order the compiler chooses, unsynchronised with the readers of line 81
DiscWrite(w) ==
    /\ dpc = "write"
    /\ w \notin dwritten
    /\ engines' = IF w = "ptr"
                  THEN [engines EXCEPT !.ptr = IF dlist = <<>> THEN "nil" ELSE "list"]
                  ELSE [engines EXCEPT !.len = Len(dlist)]
    /\ dwritten' = dwritten \cup {w}
    /\ dpc' = IF dwritten' = {"ptr", "len"} THEN "done" ELSE "write"
    /\ UNCHANGED <<storeVars, reqVars, loopVars, janVars, getVars, pending, dlist>>

\* ----------------------------------------------------------------- cleanup
\* The value is the empty string or holds a control character.
Invalid(v) == v = <<>> \/ \E i \in 1..Len(v) : v[i] = "^"

\* A second pass that looks for empty values as the first one does.
TrashedEmptyOnly(pass, value) == value = <<>>

\* Passes that remove every entry.
TrashedAlways(pass, value) == TRUE

\* line 171 (pass 1) and lines 197-198 (pass 2): the value is to be removed
Trashed(pass, value) ==
    IF pass = 1 THEN value = <<>>
    ELSE \E i \in 1..Len(value) : ~IsGraphic(value[i])

RECURSIVE Orders(_)
Orders(S) ==
    IF S = {} THEN {<<>>}
    ELSE UNION {{<<x>> \o q : q \in Orders(S \ {x})} : x \in S}

\* after a language: the next one, or the summary when none is left
JanNext(langs) == IF langs = {} THEN "summary" ELSE "scan"

\* A delete that blanks the field and leaves it in the hash.
HDelBlanks(c, lang, word) == [c EXCEPT ![<<lang, word>>] = <<>>]

\* client.HDel(lang, word), lines 172 and 199
HDel(c, lang, word) == [c EXCEPT ![<<lang, word>>] = Nil]

\* The goroutine that sends the summary of pass `pass` of call `run` of cleanup.
Summarizer(run, pass) == <<"cleanup", 2 * (run - 1) + pass>>

\* lines 166-168 and 192-194: client.Keys("*")
JanKeys ==
    /\ jpc = "keys"
    /\ jlangs' = {l \in StoreLangs : \E w \in StoreWords : cache[<<l, w>>] # Nil}
    /\ removed' = 0
    /\ stats' = [l \in StoreLangs |-> 0]
    /\ jpc' = JanNext(jlangs')
    /\ sweep' = [sweep EXCEPT !.pass = cache]
    /\ UNCHANGED <<storeVars, discVars, reqVars, loopVars, getVars, pending,
                   jpass, jlang, jtodo>>

\* lines 170 and 196: client.HGetAll(lang) of the next language; the entries
\* that pass the test of the pass are skipped
JanScan ==
    /\ jpc = "scan"
    /\ \E l \in jlangs :
         /\ jlangs' = jlangs \ {l}
         /\ jlang' = l
         /\ jtodo' = {w \in StoreWords : /\ cache[<<l, w>>] # Nil
                                         /\ Trashed(jpass, cache[<<l, w>>])}
         /\ jpc' = IF jtodo' = {} THEN JanNext(jlangs') ELSE "del"
         /\ sweep' = [sweep EXCEPT !.seen = [w \in jtodo' |-> cache[<<l, w>>]]]
    /\ UNCHANGED <<storeVars, discVars, reqVars, loopVars, getVars, pending,
                   jpass, removed, stats>>

\* lines 172-174 and 199-201: client.HDel(lang, word) and the tally
JanDel ==
    /\ jpc = "del"
    /\ \E w \in jtodo :
         LET now == cache[<<jlang, w>>]
         IN  /\ cache' = HDel(cache, jlang, w)
             /\ jtodo' = jtodo \ {w}
             /\ sweep' = IF now # Nil /\ ~Invalid(now)
                         THEN [sweep EXCEPT
                                 !.lost = @ \cup {[lang |-> jlang, word |-> w,
                                                   seen |-> sweep.seen[w],
                                                   had |-> now]}]
                         ELSE sweep
    /\ removed' = removed + 1
    /\ stats' = [stats EXCEPT ![jlang] = @ + 1]
    /\ jpc' = IF jtodo' = {} THEN JanNext(jlangs) ELSE "del"
    /\ UNCHANGED <<discVars, reqVars, loopVars, getVars, pending,
                   jpass, jlangs, jlang>>

\* lines 178-188 and 208-218: the summary, sent by a goroutine of its own; then
\* the second pass (line 162) or the end of cleanup
JanSummary ==
    /\ jpc = "summary"
    /\ IF removed > 0
       THEN \E order \in Orders({l \in StoreLangs : stats[l] > 0}) :
              BlockOnSend(Summarizer(sweep.run, jpass),
                          SummaryText(jpass, removed, stats, order))
       ELSE pending' = pending
    /\ IF jpass = 1
       THEN jpass' = 2 /\ jpc' = "keys"
       ELSE jpass' = jpass /\ jpc' = "done"
    /\ UNCHANGED <<storeVars, discVars, reqVars, loopVars, getVars,
                   jlangs, jlang, jtodo, removed, stats, sweep>>

\* ------------------------------------------------------------ specification
Next ==
    \/ \E r \in Requests : ReqStart(r)
    \/ \E r \in Requests : ReqHGet(r)
    \/ \E r \in Requests : ReqRange(r)
    \/ \E r \in Requests : ReqInvoke(r)
    \/ \E r \in Requests : ReqHSet(r)
    \/ LoopInit
    \/ \E s \in pending : LoopReceive(s)
    \/ LoopTick
    \/ LoopSendDone
    \/ Discover(DiscoveryResults)
    \/ \E w \in {"ptr", "len"} : DiscWrite(w)
    \/ JanKeys
    \/ JanScan
    \/ JanDel
    \/ JanSummary

Spec == Init /\ [][Next]_vars

\* ------------------------------------------- getEngines on every short output
InitEngines ==
    /\ cache = [k \in StoreKeys |-> Nil]
    /\ Started
    /\ gpc = "parse" /\ gdata \in AllOutputs /\ gparsed = <<>> /\ gout = <<>>

\* lines 238-243
GetParse ==
    /\ gpc = "parse"
    /\ gparsed' = ParseEngines(gdata)
    /\ gpc' = "reorder"
    /\ UNCHANGED <<storeVars, discVars, reqVars, loopVars, janVars, pending,
                   gdata, gout>>

\* lines 244-254
GetReorder ==
    /\ gpc = "reorder"
    /\ gout' = MoveGoogleFirst(gparsed)
    /\ gpc' = "return"
    /\ UNCHANGED <<storeVars, discVars, reqVars, loopVars, janVars, pending,
                   gdata, gparsed>>

NextEngines == GetParse \/ GetReorder

SpecEngines == InitEngines /\ [][NextEngines]_vars

\* ----------------------------------- cleanup alone, called twice, on every store
\* No request is served, nothing else writes to the store, and the store
\* answers every command of cleanup (Keys, HGetAll, HDel), as in every
\* specification of this module.
InitCleanup ==
    /\ cache \in AllCaches
    /\ Started
    /\ gpc = "idle" /\ gdata = <<>> /\ gparsed = <<>> /\ gout = <<>>

\* cleanup(client) is called again when the first call has returned
JanAgain ==
    /\ jpc = "done" /\ sweep.run = 1
    /\ jpass' = 1 /\ jpc' = "keys"
    /\ sweep' = [run |-> 2, before |-> cache, pass |-> cache, seen |-> <<>>,
                 lost |-> {}]
    /\ UNCHANGED <<storeVars, discVars, reqVars, loopVars, getVars, pending,
                   jlangs, jlang, jtodo, removed, stats>>

NextCleanup == JanKeys \/ JanScan \/ JanDel \/ JanSummary \/ JanAgain

SpecCleanup == InitCleanup /\ [][NextCleanup]_vars

\* --------------------------------------------- the program, scheduled fairly
\* One store, with one empty translation for cleanup to remove.
InitLive ==
    /\ cache = Store(<<>>, Nil, Nil, Nil)
    /\ Started
    /\ gpc = "idle" /\ gdata = <<>> /\ gparsed = <<>> /\ gout = <<>>

\* Every goroutine that can take a step takes one: a handler that has begun
\* goes on (the store and the engine answer), NewBotAPI and bot.Send return, and
\* the select of line 131, which chooses at random among the cases that are
\* ready, takes each of them again and again.
Fairness ==
    /\ \A r \in Requests :
         /\ WF_vars(ReqHGet(r) \/ ReqRange(r) \/ ReqInvoke(r) \/ ReqHSet(r))
         /\ SF_vars(\E s \in pending : s.from = <<"req", r>> /\ LoopReceive(s))
    /\ WF_vars(LoopInit)
    /\ WF_vars(LoopSendDone)
    /\ SF_vars(LoopTick)
    /\ SF_vars(\E s \in pending : LoopReceive(s))
    /\ WF_vars(Discover(DiscoveryResults) \/ \E w \in {"ptr", "len"} : DiscWrite(w))
    /\ WF_vars(JanKeys \/ JanScan \/ JanDel \/ JanSummary)

SpecLive == InitLive /\ [][Next]_vars /\ Fairness

\* ================================================================== claims
\* fetch was called for the request (line 58)
Fetched(r) ==
    \/ rpc[r] \in {"range", "invoke", "hset", "notify", "panic"}
    \/ rlog[r].invoked # <<>>
    \/ rlog[r].writes # <<>>
    \/ rlog[r].emitted # <<>>

SendersOf(r) == {s \in pending : s.from = <<"req", r>>}

\* C1: a request calls fetch if and only if its HGet answered with an error (the
\* field is absent or the command failed); when HGet answered with a value the
\* request is over, its response is that value as stored, whatever it is, no
\* engine was run and no HSet was issued.
C1_FetchIffGetFails ==
    \A r \in Requests :
        rlog[r].reads > 0 =>
            /\ rlog[r].reads = 1
            /\ Fetched(r) <=> rlog[r].err
            /\ ~rlog[r].err =>
                 /\ rpc[r] = "done"
                 /\ rresp[r] = rlog[r].got
                 /\ rlog[r].invoked = <<>>
                 /\ rlog[r].writes = <<>>
                 /\ rlog[r].emitted = <<>> /\ SendersOf(r) = {}

\* C1 witness: a request answered with a stored empty string.
C1_Witness ==
    \E r \in Requests :
        /\ rlog[r].reads = 1 /\ ~rlog[r].err
        /\ rlog[r].got = <<>> /\ rresp[r] = <<>> /\ rpc[r] = "done"

\* C1 second case: a request whose HGet failed is in fetch.
C1_WitnessMiss ==
    \E r \in Requests : rlog[r].err /\ rlog[r].invoked # <<>>

\* C9: a request whose word or language holds nothing but white space is
\* answered with the empty string, and has called neither HGet nor HSet, run no
\* engine and handed no text to the notification loop.
C9_EmptyInput ==
    \A r \in Requests :
        (rpc[r] # "idle" /\ (Blank(rlog[r].rawWord) \/ Blank(rlog[r].rawLang))) =>
            /\ rpc[r] = "done"
            /\ rresp[r] = <<>>
            /\ rlog[r].reads = 0
            /\ rlog[r].writes = <<>>
            /\ rlog[r].invoked = <<>>
            /\ rlog[r].emitted = <<>> /\ SendersOf(r) = {}

\* C9 witness: a request for a word of white space only, answered.
C9_Witness ==
    \E r \in Requests :
        /\ rpc[r] = "done" /\ rlog[r].rawWord = <<" ">> /\ ~Blank(rlog[r].rawLang)
        /\ rresp[r] = <<>>

\* C2: the engines a fetch has run are the first elements of the list it
\* iterates over, in order and one run each; none is run after one succeeded;
\* when engine k succeeded after k-1 failures the fetch issues exactly one
\* HSet(lang, word, result of engine k) and the response is that result.
C2_FallbackOrder ==
    \A r \in Requests :
        LET inv == rlog[r].invoked
            n == Len(inv)
        IN  /\ n <= Len(rsnap[r])
            /\ \A j \in 1..n : inv[j].engine = rsnap[r][j]
            /\ \A j \in 1..(n - 1) : ~inv[j].ok
            /\ rlog[r].writes # <<>> => (n > 0 /\ inv[n].ok)
            /\ (n > 0 /\ inv[n].ok) =>
                 /\ rpc[r] \in {"hset", "done"}
                 /\ rpc[r] = "hset" =>
                      (rlog[r].writes = <<>> /\ rans[r] = inv[n].ans)
                 /\ rpc[r] = "done" =>
                      /\ rlog[r].writes = << <<rlang[r], rword[r], inv[n].ans>> >>
                      /\ rresp[r] = inv[n].ans

\* C2 witness: of three engines the first failed and the second succeeded; the
\* request is answered.
C2_Witness ==
    \E r \in Requests :
        /\ rpc[r] = "done" /\ Len(rsnap[r]) = 3 /\ Len(rlog[r].invoked) = 2
        /\ ~rlog[r].invoked[1].ok /\ rlog[r].invoked[2].ok
        /\ rlog[r].writes # <<>>

\* The text is the error line of this request's word and language.
NamesRequest(t, r) ==
    /\ Len(t) = 1
    /\ t[1].kind = "[error] $a (to $b) failed to translate in all engines"
    /\ t[1].a = rword[r] /\ t[1].b = rlang[r]

\* Every engine of the list the fetch iterates over was run and failed.
AllEnginesFailed(r) ==
    /\ Fetched(r) /\ rpc[r] \notin {"range", "panic"}
    /\ Len(rlog[r].invoked) = Len(rsnap[r])
    /\ \A j \in 1..Len(rlog[r].invoked) : ~rlog[r].invoked[j].ok

\* C3: when every engine of the list failed, the request issues no HSet, sends
\* exactly one text, the error line of its word and language, and once the text
\* is received answers with the word.
C3_AllEnginesFail ==
    \A r \in Requests :
        AllEnginesFailed(r) =>
            /\ rlog[r].writes = <<>>
            /\ rpc[r] \in {"notify", "done"}
            /\ rpc[r] = "notify" =>
                 /\ rresp[r] = Nil /\ rlog[r].emitted = <<>>
                 /\ Cardinality(SendersOf(r)) = 1
                 /\ \A s \in SendersOf(r) : NamesRequest(s.text, r)
            /\ rpc[r] = "done" =>
                 /\ rresp[r] = rword[r]
                 /\ Len(rlog[r].emitted) = 1 /\ NamesRequest(rlog[r].emitted[1], r)
                 /\ SendersOf(r) = {}

\* C3 witness: three engines failed and the request is answered.
C3_Witness ==
    \E r \in Requests :
        /\ AllEnginesFailed(r) /\ Len(rsnap[r]) = 3
        /\ rpc[r] = "done" /\ rresp[r] = rword[r]

\* C4: a request handler that sends its error text is never kept waiting:
\* whenever it is at the send of line 115 the loop is at its select, ready to
\* receive.
C4_ProducersNeverBlock ==
    \A r \in Requests : rpc[r] = "notify" => npc = "select"

\* C5 as stated: when events were received since the tick before, a successful
\* bot.Send is the only call of its tick, its text is those events joined in
\* arrival order, and the batch is empty after it; the loop calls bot.Send only
\* with a non-empty batch.
C5_Coalescing ==
    /\ npc = "send" => batch # <<>>
    /\ (lastSend.outcome = "ok" /\ lastSend.fresh # <<>>) =>
         /\ lastSend.calls = 1
         /\ lastSend.text = Join(lastSend.fresh)
         /\ batch = <<>>

\* C5 amended: the text of a successful bot.Send is the events an earlier failed
\* send left in the batch followed by the events received since the tick before,
\* joined in arrival order; so it is exactly the latter when nothing was left.
C5_CoalescingAfterRetained ==
    /\ npc = "send" => (batch # <<>> /\ tickSends = 1 /\ text = Join(batch))
    /\ lastSend.outcome = "ok" =>
         /\ lastSend.calls = 1
         /\ lastSend.text = Join(lastSend.kept \o lastSend.fresh)
         /\ lastSend.kept = <<>> => lastSend.text = Join(lastSend.fresh)
         /\ batch = <<>>

\* C5 witness: three events arrived in one interval, nothing was left from
\* before, and bot.Send has just succeeded.
C5_Witness ==
    /\ lastSend.outcome = "ok" /\ lastSend.kept = <<>>
    /\ Len(lastSend.fresh) = 3 /\ batch = <<>>

\* C6: a failed bot.Send leaves the batch as it was sent; from then on the
\* batch is those events followed by the events received since, and that is
\* what the next bot.Send is called with.
C6_FailedSendRetains ==
    /\ lastSend.outcome = "fail" =>
         (retained = lastSend.kept \o lastSend.fresh /\ retained # <<>>
          /\ lastSend.text = Join(retained) /\ batch = retained)
    /\ retained # <<>> => batch = retained \o arrived
    /\ (npc = "send" /\ retained # <<>>) => text = Join(retained \o arrived)

\* C6 witness: bot.Send is called again after a failure, with an event that
\* arrived in between.
C6_Witness == npc = "send" /\ retained # <<>> /\ arrived # <<>>

\* C7: without a bot the loop never calls bot.Send, and the batch holds only
\* the events received since the last tick.
C7_NoBotNoSend ==
    (npc # "init" /\ bot = "nil") =>
        /\ npc = "select" /\ tickSends = 0 /\ lastSend = NoSend
        /\ text = <<>> /\ retained = <<>>
        /\ batch = arrived

\* C7 witness: without a bot, "backend started" was received and a tick has
\* dropped it.
C7_Witness ==
    /\ bot = "nil" /\ npc = "select" /\ batch = <<>>
    /\ Sender(<<"main", 0>>, StartedText) \notin pending

\* C8: getEngines returns the parsed list with the first "google" moved to the
\* front and the other engines in their order; the parsed list itself when it
\* holds no "google" or starts with it.
C8_PreferredFirst ==
    gpc = "return" =>
        LET at == {i \in 1..Len(gparsed) : gparsed[i] = "google"}
        IN  IF at = {} \/ 1 \in at THEN gout = gparsed
            ELSE LET i == CHOOSE k \in at : \A m \in at : k <= m
                 IN  gout = <<"google">> \o SubSeq(gparsed, 1, i - 1)
                                       \o SubSeq(gparsed, i + 1, Len(gparsed))

\* C10: the summary of the second pass of cleanup is never received while the
\* summary of the first pass, sent before it, still waits to be received.
C10_ProducerOrder ==
    ~ /\ \E s \in pending : s.from = <<"cleanup", 1>>
      /\ jpc = "done" /\ removed > 0
      /\ ~ \E s \in pending : s.from = <<"cleanup", 2>>

\* ---------------------------------------------------------------- cleanup
\* C11: when cleanup has returned and nothing else wrote to the store, every
\* entry that was the empty string or held a non-printable character when
\* cleanup was called is absent, and every other entry is as it was.
C11_SweepRemovesInvalid ==
    jpc = "done" =>
        \A k \in StoreKeys :
            cache[k] = IF sweep.before[k] # Nil /\ Invalid(sweep.before[k])
                       THEN Nil ELSE sweep.before[k]

\* C11 witness: a first call of cleanup has returned, having removed an empty
\* entry and one holding a letter and a control character, and kept a clean one.
C11_Witness ==
    /\ jpc = "done" /\ sweep.run = 1
    /\ \E k1, k2, k3 \in StoreKeys :
         /\ sweep.before[k1] = <<>> /\ cache[k1] = Nil
         /\ sweep.before[k2] = <<"x", "^">> /\ cache[k2] = Nil
         /\ sweep.before[k3] = <<"x">> /\ cache[k3] = <<"x">>

\* The pass that has just sent its summary or decided to send none.
PassOver == (jpass = 2 /\ jpc = "keys") \/ jpc = "done"
LastPass == IF jpc = "done" THEN 2 ELSE 1

\* The entries of language l the store has lost since the pass began.
RemovedIn(l) == {w \in StoreWords : sweep.pass[<<l, w>>] # Nil /\ cache[<<l, w>>] = Nil}

RECURSIVE SumOver(_, _)
SumOver(f, S) ==
    IF S = {} THEN 0
    ELSE LET x == CHOOSE y \in S : TRUE IN f[x] + SumOver(f, S \ {x})

\* C12: when a pass is over, it has sent no summary if it removed no entry, and
\* otherwise exactly one, whose first line reports the number of entries the
\* pass removed and whose other lines are one per language that lost entries,
\* each with the number of entries removed from that language; the line counts
\* add up to the total.
C12_SummaryCounts ==
    PassOver =>
        LET sent == {s \in pending : s.from = Summarizer(sweep.run, LastPass)}
            lost == [l \in StoreLangs |-> Cardinality(RemovedIn(l))]
            total == SumOver(lost, StoreLangs)
        IN  IF total = 0 THEN sent = {}
            ELSE /\ Cardinality(sent) = 1
                 /\ \A s \in sent :
                      LET t == s.text
                          rest == 2..Len(t)
                      IN  /\ Len(t) >= 1
                          /\ t[1].n = total
                          /\ t[1].kind =
                               (IF LastPass = 1
                                THEN "[info] removed $n trashed (empty) translations"
                                ELSE "[info] removed $n non-printable translations")
                          /\ \A l \in StoreLangs :
                               Cardinality({i \in rest : t[i].a = l}) =
                                   (IF lost[l] > 0 THEN 1 ELSE 0)
                          /\ \A i \in rest :
                               /\ t[i].a \in StoreLangs
                               /\ t[i].kind = "$a: $n removes"
                               /\ t[i].n = lost[t[i].a]
                          /\ SumOver([i \in rest |-> t[i].n], rest) = t[1].n

\* C12 witness: the second pass is over and has reported two entries removed
\* from one language and one from another, after a first pass that reported too.
C12_Witness ==
    /\ jpc = "done" /\ sweep.run = 1
    /\ \E s \in pending : s.from = Summarizer(1, 1)
    /\ \E s \in pending :
         /\ s.from = Summarizer(1, 2) /\ Len(s.text) = 3 /\ s.text[1].n = 3

\* C13: a second call of cleanup, made when the first has returned and nothing
\* wrote to the store, removes nothing, sends no summary and leaves the store as
\* the first call left it.
C13_SecondSweepIdle ==
    sweep.run = 2 =>
        /\ (jpass = 2 \/ jpc # "keys") => removed = 0
        /\ jtodo = {}
        /\ cache = sweep.before
        /\ ~ \E s \in pending :
               s.from \in {Summarizer(2, 1), Summarizer(2, 2)}

\* C13 witness: the second call has returned after a first call that removed
\* entries in both passes.
C13_Witness ==
    /\ sweep.run = 2 /\ jpc = "done"
    /\ \E s \in pending : s.from = Summarizer(1, 1)
    /\ \E s \in pending : s.from = Summarizer(1, 2)

\* ------------------------------------------------- the engine list, the races
\* What a reader of the global `engines` finds.
EngineList == [i \in 1..engines.len |-> ElemAt(engines.ptr, i)]

\* getEngines returned an error.
DiscoveryFailed == dpc = "done" /\ dwritten = {}

\* C14: as long as discovery is not over, and for ever when getEngines failed,
\* a reader of the engine list finds the default list; the list is stored at
\* most once; a failed discovery has stored nothing and has emitted one text,
\* the error line, which is waiting or was received.
C14_DefaultUntilDiscovered ==
    /\ dpc # "done" => EngineList = DefaultEngines
    /\ DiscoveryFailed =>
         /\ EngineList = DefaultEngines
         /\ \A s \in pending : s.from = <<"discovery", 0>> => s.text = DiscoveryErrorText
         /\ Cardinality({s \in pending : s.from = <<"discovery", 0>>})
              + CopiesIn(DiscoveryErrorText, notes.received) = 1

\* C16: the engines a fetch iterates over are the default list or the list
\* discovery found, never anything else, and the read of the list never faults.
C16_OneSnapshot ==
    \A r \in Requests :
        /\ rpc[r] # "panic"
        /\ ridx[r] >= 1 =>
             \/ rsnap[r] = DefaultEngines
             \/ dwritten # {} /\ rsnap[r] = dlist

\* C17: whenever cleanup deleted an entry that held a non-empty value of
\* letters only, HGetAll had returned an empty or non-printable value for it and
\* a request has issued the HSet of the value deleted: the value was written
\* between the scan and the delete.
C17_OnlyRacyWritesAreLost ==
    \A e \in sweep.lost :
        /\ Invalid(e.seen)
        /\ e.had # e.seen
        /\ \E r \in Requests :
             \E i \in 1..Len(rlog[r].writes) :
               rlog[r].writes[i] = <<e.lang, e.word, e.had>>

\* C17 witness: cleanup has deleted a translation a request had just stored.
C17_Witness ==
    \E e \in sweep.lost :
        /\ e.seen = <<>> /\ e.had = <<"x">>
        /\ cache[<<e.lang, e.word>>] = Nil
        /\ \E r \in Requests : rpc[r] = "done" /\ rresp[r] = <<"x">>

\* C18: every value a request hands to HSet is non-empty, has no white space
\* at either end and no upper-case letter, and is the answer of the last engine
\* the request ran, which exited without error; and no step puts an empty
\* string in the store where there was none.
C18_NoEmptyWrites ==
    /\ [](\A r \in Requests :
            \A i \in 1..Len(rlog[r].writes) :
              LET v == rlog[r].writes[i][3]
                  inv == rlog[r].invoked
              IN  /\ v # <<>>
                  /\ ~IsSpace(v[1]) /\ ~IsSpace(v[Len(v)])
                  /\ \A j \in 1..Len(v) : v[j] \notin Upper
                  /\ inv # <<>> /\ inv[Len(inv)].ok /\ inv[Len(inv)].ans = v)
    /\ [][\A k \in StoreKeys : cache'[k] = <<>> => cache[k] = <<>>]_vars

\* C18 witness: a request has stored the answer "x" of an engine.
C18_Witness ==
    \E r \in Requests :
        /\ rlog[r].writes # <<>> /\ rlog[r].writes[1][3] = <<"x">>
        /\ cache[<<rlang[r], rword[r]>>] = <<"x">>

\* C19: outside the store of line 74 the engine list is never empty, and a
\* request that gave up on the engines has run at least one.
C19_EnginesNeverEmpty ==
    /\ dpc # "write" => engines.len > 0
    /\ \A r \in Requests :
         (rpc[r] = "notify" \/ rlog[r].emitted # <<>>) => rlog[r].invoked # <<>>

\* C15: a request that has begun is eventually answered.
C15_EveryRequestAnswered ==
    \A r \in Requests : (rpc[r] # "idle") ~> (rresp[r] # Nil)

\* Whenever bot.Send keeps being called, it succeeds again and again.
SendsSucceed == []<>(npc = "send") => []<>(lastSend.outcome = "ok")

\* C20: with a bot, every event received is either in the batch or in exactly
\* one successful bot.Send, never in two; the batch is the events received
\* since the last successful bot.Send or the last drop, in arrival order; and
\* if sends succeed in the end, every event received ends up delivered.
C20_DeliveredOnce ==
    /\ []((npc # "init" /\ bot = "bot") =>
            notes.received = notes.delivered (+) SeqToBag(batch))
    /\ [](batch = notes.since)
    /\ (SendsSucceed => []<>(bot = "bot" => notes.delivered = notes.received))

\* C20 witness: two events went out in a bot.Send that succeeded after one that
\* failed, and nothing received is left undelivered.
C20_Witness ==
    /\ bot = "bot" /\ lastSend.outcome = "ok" /\ Len(lastSend.kept) >= 1
    /\ Len(lastSend.fresh) >= 1
    /\ notes.delivered = notes.received /\ BagCardinality(notes.delivered) >= 2

====
